---- MODULE Spec2Model ----
(***************************************************************************)
(* Model of avr-hokey.cpp: a reaction-timing game on an AVR.  A timer      *)
(* interrupt fires FRAME_PER_SEC times per second; each firing refreshes   *)
(* the two-digit multiplexed display on every fourth tick and then runs    *)
(* game_manager::update(), which dispatches to the handler of the current  *)
(* game state.                                                             *)
(*                                                                         *)
(* Pin levels are "high" and "low".  Display and bar are wired active-low  *)
(* on their select lines: output_pin::set() drives "high" (line off) and   *)
(* output_pin::reset() drives "low" (line on).  A switch reads "low" while *)
(* it is pressed (pull-up), so a handler tests !read().                    *)
(***************************************************************************)
EXTENDS Integers, Sequences, FiniteSets, TLC

(* ------------------------------------------------------------------ *)
(* Program constants                                                   *)
(* ------------------------------------------------------------------ *)
MAX_SCORE == 99

FRAME_PER_SEC == 500

BAR_INVALID == -1

Digit == 2

(* ------------------------------------------------------------------ *)
(* Bounds of the environment                                           *)
(* ------------------------------------------------------------------ *)
\* Profile "casual": the player stops pressing once m_score = MaxPoints.
MaxPoints == 2

\* Profile "timing": the player's presses and releases are unconstrained
\* while m_score < FreePresses and stop after that.
FreePresses == 2

\* The bytes the EEPROM cell may hold at power-on: 0 .. MaxStoredByte, and
\* the unprogrammed 0xFF.
MaxStoredByte == 1

\* rand() returns one of 0, 39, ..., 39 * (RandCount - 1): the jitter
\* rand() % 40 takes its extremes 0 and 39, rand() % 10 takes 0 and 9.
RandCount == 2

VARIABLES
    m_update_func,          \* game_manager: the current handler
    m_score,
    m_position,
    m_bar_count,
    m_bar_speed_recip,
    m_button_invalid_time,
    m_update_high_score,
    m_blink_count,
    high_score_manager,     \* [constructed, m_high_score]
    high_score_eeprom,      \* the EEPROM cell
    bar,                    \* game_bar: [m_pos, m_pin]
    score_display,          \* seven_segments_dynamic<2>: [m_valid, m_value, m_now_digit, m_cathode, m_pin]
    global_timer,           \* modulo 4: only global_timer % 4 is ever tested
    isr_pc,                 \* position inside TIMER0_OVF_vect
    game_switch,            \* level read at lines 344/357/395/428 by this tick's handler
    game_switch_score,      \* level read at line 388 by this tick's handler
    erase_score_switch,     \* level read at lines 341/354/425
    high_score_switch,      \* level read at lines 347/431
    rand_values,            \* what rand() returned to this tick's handler
    eeprom_writes,          \* eeprom_write_byte calls issued by this tick's handler
    bar_args,               \* arguments passed to bar.set_position by this tick's handler
    display_args,           \* argument of the last score_display.set_number call, <<>> after erase_number
    scored,                 \* this tick's handler took the scoring branch (line 388)
    released_ticks,         \* consecutive Playing ticks that read the play switch released
    session_played,         \* init_game() has run since power-on
    entry_score,            \* m_score when this tick's handler was entered
    player                  \* what the player does with the play switch in this session

vars == <<m_update_func, m_score, m_position, m_bar_count, m_bar_speed_recip,
          m_button_invalid_time, m_update_high_score, m_blink_count,
          high_score_manager, high_score_eeprom, bar, score_display,
          global_timer, isr_pc, game_switch, game_switch_score,
          erase_score_switch, high_score_switch, rand_values, eeprom_writes,
          bar_args, display_args, scored, released_ticks, session_played,
          entry_score, player>>

gameVars == <<m_update_func, m_score, m_position, m_bar_count, m_bar_speed_recip,
              m_button_invalid_time, m_update_high_score, m_blink_count,
              high_score_manager, high_score_eeprom, bar,
              game_switch, game_switch_score,
              erase_score_switch, high_score_switch, rand_values, eeprom_writes,
              bar_args, scored, released_ticks, session_played, entry_score,
              player>>

Levels == {"high", "low"}

\* input_pin::read(): true when the pin is high, i.e. the switch is released.
read(level) == level = "high"

\* A switch that this tick's handler did not read.
Unread == "unread"

(* ------------------------------------------------------------------ *)
(* rand()                                                              *)
(* ------------------------------------------------------------------ *)
RandValues == {39 * k : k \in 0 .. RandCount - 1}

(* ------------------------------------------------------------------ *)
(* high_score_manager                                                  *)
(* ------------------------------------------------------------------ *)
\* A store value: the singleton, the EEPROM cell and this tick's writes.
Store == [constructed |-> high_score_manager.constructed,
          m_high_score |-> high_score_manager.m_high_score,
          eeprom |-> high_score_eeprom,
          writes |-> 0]

\* high_score_manager::high_score_manager(): the cached value is the byte read.
high_score_manager_ctor(s) ==
    [s EXCEPT !.constructed = TRUE, !.m_high_score = s.eeprom]

\* high_score_manager::instance(): constructs the singleton on the first call.
instance(s) == IF s.constructed THEN s ELSE high_score_manager_ctor(s)

get_high_score(s) == s.m_high_score

\* Faulty variant: the byte is written but the cached value is not updated.
update_high_score_stale_cache(s, score) ==
    IF score > s.m_high_score
    THEN [s EXCEPT !.eeprom = score, !.writes = @ + 1]
    ELSE s

update_high_score(s, score) ==
    IF score > s.m_high_score
    THEN [s EXCEPT !.m_high_score = score, !.eeprom = score, !.writes = @ + 1]
    ELSE s

\* Faulty variant: the cached value is cleared and the cell is not written.
erase_hight_score_no_write(s) ==
    IF s.m_high_score = 0
    THEN s
    ELSE [s EXCEPT !.m_high_score = 0]

\* Faulty variant: the early return on an already erased high score is missing.
erase_hight_score_unguarded(s) ==
    [s EXCEPT !.m_high_score = 0, !.eeprom = 0, !.writes = @ + 1]

erase_hight_score(s) ==
    IF s.m_high_score = 0
    THEN s
    ELSE [s EXCEPT !.m_high_score = 0, !.eeprom = 0, !.writes = @ + 1]

\* The value get_high_score() returns on its next call.
HighScore == get_high_score(instance(Store))

StoreAssign(s) ==
    /\ high_score_manager' = [constructed |-> s.constructed, m_high_score |-> s.m_high_score]
    /\ high_score_eeprom' = s.eeprom
    /\ eeprom_writes' = s.writes

(* ------------------------------------------------------------------ *)
(* game_bar                                                            *)
(* ------------------------------------------------------------------ *)
BarPins == 0 .. 9

game_bar_init(b) == [b EXCEPT !.m_pin = [i \in BarPins |-> "high"]]

\* Faulty variant: the line of the previous position is left on.
set_position_keeps_old(b, pos) ==
    IF pos < 0 \/ pos >= 10
    THEN b
    ELSE [m_pos |-> pos, m_pin |-> [b.m_pin EXCEPT ![pos] = "low"]]

set_position(b, pos) ==
    IF pos < 0 \/ pos >= 10
    THEN b
    ELSE LET off == IF b.m_pos # BAR_INVALID
                    THEN [b.m_pin EXCEPT ![b.m_pos] = "high"]
                    ELSE b.m_pin
         IN  [m_pos |-> pos, m_pin |-> [off EXCEPT ![pos] = "low"]]

game_bar_erase(b) ==
    IF b.m_pos = BAR_INVALID
    THEN b
    ELSE [m_pos |-> BAR_INVALID, m_pin |-> [b.m_pin EXCEPT ![b.m_pos] = "high"]]

(* ------------------------------------------------------------------ *)
(* seven_segments and seven_segments_dynamic<2>                        *)
(* ------------------------------------------------------------------ *)
SegPins == 0 .. 6

\* segment_data[n] as the set of segment indices whose bit is set
\* (A = bit 0 ... G = bit 6).
segment_data(n) ==
    CASE n = 0 -> {0, 1, 2, 3, 4, 5}
      [] n = 1 -> {1, 2}
      [] n = 2 -> {0, 1, 3, 4, 6}
      [] n = 3 -> {0, 1, 2, 3, 6}
      [] n = 4 -> {1, 2, 5, 6}
      [] n = 5 -> {0, 2, 3, 5, 6}
      [] n = 6 -> {0, 2, 3, 4, 5, 6}
      [] n = 7 -> {0, 1, 2, 5}
      [] n = 8 -> {0, 1, 2, 3, 4, 5, 6}
      [] n = 9 -> {0, 1, 2, 3, 5, 6}

\* seven_segments::set_number on the seven segment pins.
seven_segments_set_number(pins, n) ==
    IF n < 0 \/ n >= 10
    THEN pins
    ELSE [i \in SegPins |-> IF i \in segment_data(n) THEN "high" ELSE "low"]

seven_segments_erase_number(pins) == [i \in SegPins |-> "low"]

RECURSIVE pow10(_)
pow10(n) == IF n = 0 THEN 1 ELSE 10 * pow10(n - 1)

display_erase_number(d) ==
    [d EXCEPT !.m_valid = FALSE, !.m_pin = seven_segments_erase_number(d.m_pin)]

\* Faulty variant: the range test lets pow10(Digit) itself through.
display_set_number_inclusive(d, value) ==
    IF value > pow10(Digit)
    THEN display_erase_number(d)
    ELSE [d EXCEPT !.m_valid = TRUE, !.m_value = value]

\* Lines 181-188.
display_set_number(d, value) ==
    IF value >= pow10(Digit)
    THEN display_erase_number(d)
    ELSE [d EXCEPT !.m_valid = TRUE, !.m_value = value]

display_init(d) ==
    [d EXCEPT !.m_cathode = [i \in 0 .. Digit - 1 |-> "high"],
              !.m_pin = seven_segments_erase_number(d.m_pin)]

\* Faulty variant: the slot shown so far is left on.
change_digit_off_skipped(d) == d

\* change_digit(), statement by statement.
\* Line 196: the slot shown so far is switched off.
change_digit_off(d) == [d EXCEPT !.m_cathode[d.m_now_digit] = "high"]

\* Lines 197-200.
change_digit_advance(d) ==
    [d EXCEPT !.m_now_digit = IF d.m_now_digit + 1 = Digit THEN 0 ELSE d.m_now_digit + 1]

\* Faulty variant: the digit of the slot that was just switched off is
\* rendered.
change_digit_render_previous(d) ==
    IF d.m_valid
    THEN [d EXCEPT !.m_pin = seven_segments_set_number(
                                 d.m_pin,
                                 (d.m_value \div pow10((d.m_now_digit + Digit - 1) % Digit)) % 10)]
    ELSE d

\* Lines 201-204: the digit of the new slot is put on the segment lines.
change_digit_render(d) ==
    IF d.m_valid
    THEN [d EXCEPT !.m_pin = seven_segments_set_number(
                                 d.m_pin, (d.m_value \div pow10(d.m_now_digit)) % 10)]
    ELSE d

\* Line 206: the new slot is switched on.
change_digit_on(d) == [d EXCEPT !.m_cathode[d.m_now_digit] = "low"]

change_digit(d) ==
    change_digit_on(change_digit_render(change_digit_advance(change_digit_off(d))))

(* ------------------------------------------------------------------ *)
(* game_manager                                                        *)
(* ------------------------------------------------------------------ *)
\* Faulty variant: the rounding term is missing.
calc_speed_recip_no_round(score, r) ==
    LET value == ((30 - (score \div 5)) * (80 + (r % 40))) \div 100
    IN  IF value <= 0 THEN 1 ELSE value

\* r: the value rand() returns.
calc_speed_recip(score, r) ==
    LET value == ((30 - (score \div 5)) * (80 + (r % 40)) + 50) \div 100
    IN  IF value <= 0 THEN 1 ELSE value

\* Faulty variant: the bar position of the previous session is kept.
init_game_keeps_position(r) ==
    /\ m_score' = 0
    /\ m_position' = m_position
    /\ m_bar_count' = 0
    /\ m_bar_speed_recip' = calc_speed_recip(0, r)
    /\ m_button_invalid_time' = 0

\* Lines 322-330.
init_game(r) ==
    /\ m_score' = 0
    /\ m_position' = 0
    /\ m_bar_count' = 0
    /\ m_bar_speed_recip' = calc_speed_recip(0, r)
    /\ m_button_invalid_time' = 0

keep_game ==
    UNCHANGED <<m_score, m_position, m_bar_count, m_bar_speed_recip,
                m_button_invalid_time>>

\* Faulty variant: the show-high-score switch is tested before the play
\* switch.
idle_inputs_high_first(s0, e, g, h, r, follow_high) ==
    /\ StoreAssign(IF ~read(e) THEN erase_hight_score(instance(s0)) ELSE s0)
    /\ erase_score_switch' = e
    /\ game_switch' = g
    /\ game_switch_score' = Unread
    /\ high_score_switch' = (IF follow_high THEN h ELSE Unread)
    /\ IF follow_high /\ ~read(h)
       THEN /\ keep_game
            /\ rand_values' = <<>>
            /\ m_update_func' = "show_high_score"
            /\ session_played' = session_played
       ELSE IF ~read(g)
       THEN /\ init_game(r)
            /\ rand_values' = <<r>>
            /\ m_update_func' = "playing"
            /\ session_played' = TRUE
       ELSE /\ keep_game
            /\ rand_values' = <<>>
            /\ m_update_func' = m_update_func
            /\ session_played' = session_played
    /\ scored' = FALSE
    /\ released_ticks' = 0
    /\ entry_score' = m_score
    /\ UNCHANGED <<m_update_high_score, m_blink_count>>

\* Lines 341-349 of ready_to_start, 354-360 of show_high_score and 425-433
\* of show_score.  s0: the store as the handler's earlier calls left it;
\* e, g, h: the levels of the erase, play and show-high-score switches;
\* follow_high: the handler has the else-if on high_score_switch.
idle_inputs(s0, e, g, h, r, follow_high) ==
    /\ StoreAssign(IF ~read(e) THEN erase_hight_score(instance(s0)) ELSE s0)
    /\ erase_score_switch' = e
    /\ game_switch' = g
    /\ game_switch_score' = Unread
    /\ IF ~read(g)
       THEN /\ init_game(r)
            /\ rand_values' = <<r>>
            /\ m_update_func' = "playing"
            /\ high_score_switch' = Unread
            /\ session_played' = TRUE
       ELSE /\ keep_game
            /\ rand_values' = <<>>
            /\ high_score_switch' = (IF follow_high THEN h ELSE Unread)
            /\ m_update_func' = (IF follow_high /\ ~read(h)
                                 THEN "show_high_score" ELSE m_update_func)
            /\ session_played' = session_played
    /\ scored' = FALSE
    /\ released_ticks' = 0
    /\ entry_score' = m_score
    /\ UNCHANGED <<m_update_high_score, m_blink_count>>

ready_to_start(e, g, h, r) ==
    /\ m_update_func = "ready_to_start"
    /\ score_display' = display_set_number(score_display, 0)
    /\ display_args' = <<0>>
    /\ bar' = set_position(bar, 0)
    /\ bar_args' = <<0>>
    /\ idle_inputs(Store, e, g, h, r, TRUE)

show_high_score(e, g, r) ==
    /\ m_update_func = "show_high_score"
    /\ score_display' = display_set_number(score_display, get_high_score(instance(Store)))
    /\ display_args' = <<get_high_score(instance(Store))>>
    /\ bar' = bar
    /\ bar_args' = <<>>
    /\ idle_inputs(instance(Store), e, g, Unread, r, FALSE)

show_score(e, g, h, r) ==
    /\ m_update_func = "show_score"
    /\ bar' = set_position(bar, 0)
    /\ bar_args' = <<0>>
    /\ score_display' = display_set_number(score_display, m_score)
    /\ display_args' = <<m_score>>
    /\ idle_inputs(Store, e, g, h, r, TRUE)

\* Faulty variant: the return travel is mirrored around 19 instead of 18.
bar_index_off_by_one(position) ==
    IF position < 10 THEN position
    ELSE IF position < 19 THEN 19 - position
    ELSE 0

\* The bar index playing() passes to set_position (lines 365-371).
bar_index(position) ==
    IF position < 10 THEN position
    ELSE IF position < 19 THEN 19 - 1 - position
    ELSE 0

\* Lines 377-382: the store after the comparison, and the flag.
round_complete_store(s0, score) ==
    IF score > get_high_score(instance(s0))
    THEN update_high_score(instance(s0), score % 256)
    ELSE instance(s0)

\* Faulty variant: a perfect score that is no new high score is not flagged.
round_complete_flag_no_perfect(s0, score) ==
    score > get_high_score(instance(s0))

round_complete_flag(s0, score) ==
    IF score > get_high_score(instance(s0))
    THEN TRUE
    ELSE score = MAX_SCORE

\* Faulty variant: the clamp at MAX_SCORE is missing.
score_up_unclamped(score) == score + 1

\* Lines 388-394: the score after a successful press.
score_up(score) == IF score + 1 > MAX_SCORE THEN MAX_SCORE ELSE score + 1

\* Faulty variant: the lockout counter is not tested.
scoring_window_ignores_lockout(position, invalid_time) == position >= 16

\* Faulty variant: the window is tested against the bar index 6.
scoring_window_forward(position, invalid_time) == position >= 6 /\ invalid_time = 0

\* Faulty variant: the window opens one position early.
scoring_window_early(position, invalid_time) == position >= 15 /\ invalid_time = 0

\* Line 388: the scoring branch is taken.  g1 is read only when the first
\* two operands hold.
scoring_window(position, invalid_time) == position >= 16 /\ invalid_time = 0

\* Faulty variant: the lockout window is a hundredth of a second.
button_invalid_time_short(invalid_time, g2) ==
    IF ~read(g2) THEN FRAME_PER_SEC \div 100
    ELSE IF invalid_time > 0 THEN invalid_time - 1
    ELSE invalid_time

\* Lines 395-399.
button_invalid_time(invalid_time, g2) ==
    IF ~read(g2) THEN FRAME_PER_SEC \div 10
    ELSE IF invalid_time > 0 THEN invalid_time - 1
    ELSE invalid_time

\* g1: the level read at line 388; g2: the level read at line 395.
playing(g1, g2, r) ==
    /\ m_update_func = "playing"
    /\ score_display' = display_set_number(score_display, m_score)
    /\ display_args' = <<m_score>>
    /\ bar' = set_position(bar, bar_index(m_position))
    /\ bar_args' = <<bar_index(m_position)>>
    /\ erase_score_switch' = Unread
    /\ high_score_switch' = Unread
    /\ session_played' = session_played
    /\ entry_score' = m_score
    /\ LET count == m_bar_count + 1
           step == count >= m_bar_speed_recip
           count1 == IF step THEN 0 ELSE count
           position1 == IF step THEN m_position + 1 ELSE m_position
       IN  IF step /\ position1 >= 19
           THEN /\ m_bar_count' = count1
                /\ m_position' = position1
                /\ StoreAssign(round_complete_store(Store, m_score))
                /\ m_update_high_score' = round_complete_flag(Store, m_score)
                /\ m_update_func' = "show_score_blink"
                /\ m_blink_count' = 0
                /\ game_switch' = Unread
                /\ game_switch_score' = Unread
                /\ rand_values' = <<>>
                /\ scored' = FALSE
                /\ released_ticks' = 0
                /\ UNCHANGED <<m_score, m_bar_speed_recip, m_button_invalid_time>>
           ELSE LET window == scoring_window(position1, m_button_invalid_time)
                    hit == window /\ ~read(g1)
                IN  /\ game_switch_score' = (IF window THEN g1 ELSE Unread)
                    /\ scored' = hit
                    /\ IF hit
                       THEN /\ m_score' = score_up(m_score)
                            /\ m_position' = 0
                            /\ m_bar_count' = 0
                            /\ m_bar_speed_recip' = calc_speed_recip(score_up(m_score), r)
                            /\ rand_values' = <<r>>
                       ELSE /\ m_score' = m_score
                            /\ m_position' = position1
                            /\ m_bar_count' = count1
                            /\ m_bar_speed_recip' = m_bar_speed_recip
                            /\ rand_values' = <<>>
                    /\ game_switch' = g2
                    /\ m_button_invalid_time' = button_invalid_time(m_button_invalid_time, g2)
                    /\ released_ticks' =
                           (IF hit \/ ~read(g2) THEN 0
                            ELSE IF released_ticks < (FRAME_PER_SEC \div 10)
                                 THEN released_ticks + 1
                                 ELSE released_ticks)
                    /\ StoreAssign(Store)
                    /\ UNCHANGED <<m_update_func, m_update_high_score, m_blink_count>>

\* Line 403: the display shows the score on this blink tick.
blink_on(count) == (count % FRAME_PER_SEC) < (FRAME_PER_SEC \div 2)

\* Faulty variant: the blink lasts one tick too long.
blink_done_late(count) == count > FRAME_PER_SEC * 3

\* Line 417: the blink is over.
blink_done(count) == count >= FRAME_PER_SEC * 3

\* Faulty variant: the blink handler honours the erase switch as lines
\* 425-427 of show_score do.
show_score_blink_erases(r) ==
    /\ m_update_func = "show_score_blink"
    /\ score_display' = (IF blink_on(m_blink_count)
                         THEN display_set_number(score_display, m_score)
                         ELSE display_erase_number(score_display))
    /\ display_args' = (IF blink_on(m_blink_count) THEN <<m_score>> ELSE <<>>)
    /\ IF m_blink_count > FRAME_PER_SEC /\ m_update_high_score
       THEN IF (m_blink_count % (FRAME_PER_SEC \div 20)) = 0
            THEN /\ bar' = set_position(bar, r % 10)
                 /\ bar_args' = <<r % 10>>
                 /\ rand_values' = <<r>>
            ELSE /\ bar' = bar
                 /\ bar_args' = <<>>
                 /\ rand_values' = <<>>
       ELSE /\ bar' = game_bar_erase(bar)
            /\ bar_args' = <<>>
            /\ rand_values' = <<>>
    /\ m_blink_count' = m_blink_count + 1
    /\ m_update_func' = (IF blink_done(m_blink_count + 1)
                         THEN "show_score" ELSE m_update_func)
    /\ \E e \in Levels :
           /\ StoreAssign(IF ~read(e) THEN erase_hight_score(instance(Store)) ELSE Store)
           /\ erase_score_switch' = e
    /\ game_switch' = Unread
    /\ game_switch_score' = Unread
    /\ high_score_switch' = Unread
    /\ scored' = FALSE
    /\ released_ticks' = 0
    /\ keep_game
    /\ entry_score' = m_score
    /\ UNCHANGED <<m_update_high_score, session_played>>

\* Lines 402-420.
show_score_blink(r) ==
    /\ m_update_func = "show_score_blink"
    /\ score_display' = (IF blink_on(m_blink_count)
                         THEN display_set_number(score_display, m_score)
                         ELSE display_erase_number(score_display))
    /\ display_args' = (IF blink_on(m_blink_count) THEN <<m_score>> ELSE <<>>)
    /\ IF m_blink_count > FRAME_PER_SEC /\ m_update_high_score
       THEN IF (m_blink_count % (FRAME_PER_SEC \div 20)) = 0
            THEN /\ bar' = set_position(bar, r % 10)
                 /\ bar_args' = <<r % 10>>
                 /\ rand_values' = <<r>>
            ELSE /\ bar' = bar
                 /\ bar_args' = <<>>
                 /\ rand_values' = <<>>
       ELSE /\ bar' = game_bar_erase(bar)
            /\ bar_args' = <<>>
            /\ rand_values' = <<>>
    /\ m_blink_count' = m_blink_count + 1
    /\ m_update_func' = (IF blink_done(m_blink_count + 1)
                         THEN "show_score" ELSE m_update_func)
    /\ StoreAssign(Store)
    /\ game_switch' = Unread
    /\ game_switch_score' = Unread
    /\ erase_score_switch' = Unread
    /\ high_score_switch' = Unread
    /\ scored' = FALSE
    /\ released_ticks' = 0
    /\ keep_game
    /\ entry_score' = m_score
    /\ UNCHANGED <<m_update_high_score, session_played>>

(* ------------------------------------------------------------------ *)
(* The environment: the levels the switches deliver                    *)
(* ------------------------------------------------------------------ *)
\* Three player profiles bound the switch inputs.
\*   "casual": any number of sessions, any use of the erase and show
\*       switches; in a session the player may take or decline every
\*       scoring opportunity until m_score = MaxPoints, then stops.
\*   "expert": one session; the player may decline an opportunity only
\*       at m_score = 0 and at m_score = MAX_SCORE and takes every other.
\*   "timing": one session; every read of the play switch is arbitrary
\*       while m_score < FreePresses; after that the switch stays released;
\*       rand() returns 0.
\*   "planned": one session; when it starts the player settles on one of
\*       three plans: "idle" never presses, "holding" keeps the switch
\*       pressed from the start on, "scoring" plays as in "casual".
\* In "casual" and "expert" the play switch is released on every Playing
\* tick except the one that scores.
SingleSession(profile) == profile \in {"expert", "timing", "planned"}

\* The plans a player may settle on when a session starts.
Plans(profile) ==
    IF profile = "planned" THEN {"idle", "holding", "scoring"} ELSE {"any"}

\* The plan during the tick that leads to m_update_func'.
PlayerPlan(profile) ==
    player' \in (IF m_update_func # "playing" /\ m_update_func' = "playing"
                 THEN Plans(profile) ELSE {player})

\* Levels of the play switch in ready_to_start, show_high_score, show_score.
StartReads(profile) ==
    IF SingleSession(profile) /\ session_played THEN {"high"} ELSE Levels

\* Levels of the erase switch.
EraseReads(profile) == IF SingleSession(profile) THEN {"high"} ELSE Levels

\* Levels of the show-high-score switch.
HighReads(profile) ==
    IF SingleSession(profile) /\ ~session_played THEN {"high"} ELSE Levels

\* Levels of the play switch at line 388.
ScoreReads(profile) ==
    CASE profile = "casual" -> IF m_score < MaxPoints THEN Levels ELSE {"high"}
      [] profile = "expert" -> IF m_score = 0 \/ m_score >= MAX_SCORE
                               THEN Levels ELSE {"low"}
      [] profile = "timing" -> IF m_score < FreePresses THEN Levels ELSE {"high"}
      [] profile = "planned" ->
             CASE player = "idle" -> {"high"}
               [] player = "holding" -> {"low"}
               [] player = "scoring" -> IF m_score < MaxPoints THEN Levels ELSE {"high"}
               [] OTHER -> {"high"}

\* Levels of the play switch at line 395, given the level g1 read at line 388.
HoldReads(profile, g1) ==
    IF profile = "timing"
    THEN IF m_score < FreePresses THEN Levels ELSE {"high"}
    ELSE IF profile = "planned" /\ player = "holding"
    THEN {"low"}
    ELSE LET count == m_bar_count + 1
             position1 == IF count >= m_bar_speed_recip
                          THEN m_position + 1 ELSE m_position
         IN  IF scoring_window(position1, m_button_invalid_time) /\ ~read(g1)
             THEN {"low"} ELSE {"high"}

\* The values rand() returns.
RandReads(profile) == IF profile = "timing" THEN {0} ELSE RandValues

(* ------------------------------------------------------------------ *)
(* game_manager::update(), once per tick                               *)
(* ------------------------------------------------------------------ *)
ReadyToStart(profile) ==
    /\ \E e \in EraseReads(profile), g \in StartReads(profile),
          h \in HighReads(profile), r \in RandReads(profile) :
           ready_to_start(e, g, h, r)
    /\ PlayerPlan(profile)
    /\ UNCHANGED <<global_timer, isr_pc>>

ShowHighScore(profile) ==
    /\ \E e \in EraseReads(profile), g \in StartReads(profile), r \in RandReads(profile) :
           show_high_score(e, g, r)
    /\ PlayerPlan(profile)
    /\ UNCHANGED <<global_timer, isr_pc>>

Playing(profile) ==
    /\ \E g1 \in ScoreReads(profile), r \in RandReads(profile) :
           \E g2 \in HoldReads(profile, g1) : playing(g1, g2, r)
    /\ PlayerPlan(profile)
    /\ UNCHANGED <<global_timer, isr_pc>>

ShowScoreBlink(profile) ==
    /\ \E r \in RandReads(profile) : show_score_blink(r)
    /\ PlayerPlan(profile)
    /\ UNCHANGED <<global_timer, isr_pc>>

ShowScore(profile) ==
    /\ \E e \in EraseReads(profile), g \in StartReads(profile),
          h \in HighReads(profile), r \in RandReads(profile) :
           show_score(e, g, h, r)
    /\ PlayerPlan(profile)
    /\ UNCHANGED <<global_timer, isr_pc>>

\* (this->*m_update_func)()
update(profile) ==
    \/ ReadyToStart(profile)
    \/ ShowHighScore(profile)
    \/ Playing(profile)
    \/ ShowScoreBlink(profile)
    \/ ShowScore(profile)

(* ------------------------------------------------------------------ *)
(* Power-on                                                            *)
(* ------------------------------------------------------------------ *)
EepromInit == (0 .. MaxStoredByte) \cup {255}

\* The state when main() enables interrupts: the statics are
\* zero-initialised, bar.init() and score_display.init() have run on
\* the levels the pins had (all low or all high), and the singletons are
\* not constructed.
Init ==
    /\ m_update_func = "ready_to_start"
    /\ m_score = 0
    /\ m_position = 0
    /\ m_bar_count = 0
    /\ m_bar_speed_recip = 0
    /\ m_button_invalid_time = 0
    /\ m_update_high_score = FALSE
    /\ m_blink_count = 0
    /\ high_score_manager = [constructed |-> FALSE, m_high_score |-> 0]
    /\ high_score_eeprom \in EepromInit
    /\ \E l \in Levels :
           bar = game_bar_init([m_pos |-> BAR_INVALID, m_pin |-> [i \in BarPins |-> l]])
    /\ \E l \in Levels :
           score_display = display_init([m_valid |-> FALSE, m_value |-> 0,
                                         m_now_digit |-> 0,
                                         m_cathode |-> [i \in 0 .. Digit - 1 |-> l],
                                         m_pin |-> [i \in SegPins |-> l]])
    /\ global_timer = 0
    /\ isr_pc = "idle"
    /\ game_switch = Unread
    /\ game_switch_score = Unread
    /\ erase_score_switch = Unread
    /\ high_score_switch = Unread
    /\ rand_values = <<>>
    /\ eeprom_writes = 0
    /\ bar_args = <<>>
    /\ display_args = <<>>
    /\ scored = FALSE
    /\ released_ticks = 0
    /\ session_played = FALSE
    /\ entry_score = 0
    /\ player = "any"

Next == update("casual")

Spec == Init /\ [][Next]_vars

NextExpert == update("expert")

SpecExpert == Init /\ [][NextExpert]_vars

NextTiming == update("timing")

SpecTiming == Init /\ [][NextTiming]_vars

NextPlanned == update("planned")

\* main() starts timer 0, enables its overflow interrupt and loops (lines
\* 467-473), and no handler blocks: every tick is eventually taken.
SpecPlanned == Init /\ [][NextPlanned]_vars /\ WF_vars(NextPlanned)

(* ------------------------------------------------------------------ *)
(* TIMER0_OVF_vect, pin write by pin write, as the display sees it     *)
(* ------------------------------------------------------------------ *)
\* What the handlers of game_manager pass to score_display.set_number:
\* a score (0 .. MAX_SCORE) or a high score (0 .. 255).
DisplayValues == {0, 9, 10, MAX_SCORE, MAX_SCORE + 1, 255}

\* Lines 458-459.
isr_enter ==
    /\ isr_pc = "idle"
    /\ global_timer' = (global_timer + 1) % 4
    /\ isr_pc' = (IF (global_timer + 1) % 4 = 0 THEN "cd_off" ELSE "update")
    /\ UNCHANGED <<score_display, display_args, gameVars>>

isr_change_digit_off ==
    /\ isr_pc = "cd_off"
    /\ score_display' = change_digit_off(score_display)
    /\ display_args' = display_args
    /\ isr_pc' = "cd_advance"
    /\ UNCHANGED <<global_timer, gameVars>>

isr_change_digit_advance ==
    /\ isr_pc = "cd_advance"
    /\ score_display' = change_digit_advance(score_display)
    /\ display_args' = display_args
    /\ isr_pc' = "cd_render"
    /\ UNCHANGED <<global_timer, gameVars>>

isr_change_digit_render ==
    /\ isr_pc = "cd_render"
    /\ score_display' = change_digit_render(score_display)
    /\ display_args' = display_args
    /\ isr_pc' = "cd_on"
    /\ UNCHANGED <<global_timer, gameVars>>

isr_change_digit_on ==
    /\ isr_pc = "cd_on"
    /\ score_display' = change_digit_on(score_display)
    /\ display_args' = display_args
    /\ isr_pc' = "update"
    /\ UNCHANGED <<global_timer, gameVars>>

\* Line 462: the handler run by update() makes one call on the display,
\* set_number (lines 339, 353, 364, 404, 424) or erase_number (line 406).
isr_update_set_number ==
    /\ isr_pc = "update"
    /\ \E v \in DisplayValues :
           /\ score_display' = display_set_number(score_display, v)
           /\ display_args' = <<v>>
    /\ isr_pc' = "idle"
    /\ UNCHANGED <<global_timer, gameVars>>

isr_update_erase_number ==
    /\ isr_pc = "update"
    /\ score_display' = display_erase_number(score_display)
    /\ display_args' = <<>>
    /\ isr_pc' = "idle"
    /\ UNCHANGED <<global_timer, gameVars>>

NextDisplay ==
    \/ isr_enter
    \/ isr_change_digit_off
    \/ isr_change_digit_advance
    \/ isr_change_digit_render
    \/ isr_change_digit_on
    \/ isr_update_set_number
    \/ isr_update_erase_number

SpecDisplay == Init /\ [][NextDisplay]_vars

(* ------------------------------------------------------------------ *)
(* calc_speed_recip on every score and every jitter                    *)
(* ------------------------------------------------------------------ *)
\* rand() returns 0 .. MaxRand here.
MaxRand == 79

InitCalc ==
    /\ m_update_func = "playing"
    /\ m_score \in 0 .. MAX_SCORE
    /\ m_position = 0
    /\ m_bar_count = 0
    /\ m_bar_speed_recip = 0
    /\ m_button_invalid_time = 0
    /\ m_update_high_score = FALSE
    /\ m_blink_count = 0
    /\ high_score_manager = [constructed |-> FALSE, m_high_score |-> 0]
    /\ high_score_eeprom = 0
    /\ bar = game_bar_init([m_pos |-> BAR_INVALID, m_pin |-> [i \in BarPins |-> "low"]])
    /\ score_display = display_init([m_valid |-> FALSE, m_value |-> 0, m_now_digit |-> 0,
                                     m_cathode |-> [i \in 0 .. Digit - 1 |-> "low"],
                                     m_pin |-> [i \in SegPins |-> "low"]])
    /\ global_timer = 0
    /\ isr_pc = "idle"
    /\ game_switch = Unread
    /\ game_switch_score = Unread
    /\ erase_score_switch = Unread
    /\ high_score_switch = Unread
    /\ rand_values = <<>>
    /\ eeprom_writes = 0
    /\ bar_args = <<>>
    /\ display_args = <<>>
    /\ scored = FALSE
    /\ released_ticks = 0
    /\ session_played = TRUE
    /\ entry_score = m_score
    /\ player = "any"

\* Line 393 (and 328): m_bar_speed_recip = calc_speed_recip().
CalcSpeedRecip ==
    /\ \E r \in 0 .. MaxRand :
           /\ m_bar_speed_recip' = calc_speed_recip(m_score, r)
           /\ rand_values' = <<r>>
    /\ UNCHANGED <<m_update_func, m_score, m_position, m_bar_count,
                   m_button_invalid_time, m_update_high_score, m_blink_count,
                   high_score_manager, high_score_eeprom, bar, score_display,
                   global_timer, isr_pc, game_switch, game_switch_score,
                   erase_score_switch, high_score_switch, eeprom_writes,
                   bar_args, display_args, scored, released_ticks,
                   session_played, entry_score, player>>

NextCalc == CalcSpeedRecip

SpecCalc == InitCalc /\ [][NextCalc]_vars

(* ------------------------------------------------------------------ *)
(* game_bar under any sequence of calls                                *)
(* ------------------------------------------------------------------ *)
\* set_position is called with -3 .. MaxBarArg: both sides of the range
\* 0 .. 9, and BAR_INVALID itself.
MaxBarArg == 12

BarArgs == (0 - 3) .. MaxBarArg

\* Everything but bar and bar_args.
barFrame == <<m_update_func, m_score, m_position, m_bar_count, m_bar_speed_recip,
              m_button_invalid_time, m_update_high_score, m_blink_count,
              high_score_manager, high_score_eeprom, score_display,
              global_timer, isr_pc, game_switch, game_switch_score,
              erase_score_switch, high_score_switch, rand_values, eeprom_writes,
              display_args, scored, released_ticks, session_played, entry_score,
              player>>

\* Lines 239-246.  bar_args records the call: <<pos>>.
bar_call_set_position ==
    /\ \E pos \in BarArgs :
           /\ bar' = set_position(bar, pos)
           /\ bar_args' = <<pos>>
    /\ UNCHANGED barFrame

\* Lines 248-252.  bar_args records the call: <<>>.
bar_call_erase ==
    /\ bar' = game_bar_erase(bar)
    /\ bar_args' = <<>>
    /\ UNCHANGED barFrame

NextBar ==
    \/ bar_call_set_position
    \/ bar_call_erase

SpecBar == Init /\ [][NextBar]_vars

(* ------------------------------------------------------------------ *)
(* Properties                                                          *)
(* ------------------------------------------------------------------ *)
IdleHandlers == {"ready_to_start", "show_high_score", "show_score"}

Lockout == FRAME_PER_SEC \div 10

Max(a, b) == IF a >= b THEN a ELSE b

\* This step is the Playing tick on which m_position advances to 19.
RoundCompletes ==
    /\ m_update_func = "playing"
    /\ m_bar_count + 1 >= m_bar_speed_recip
    /\ m_position + 1 >= 19

\* C1: m_score is in [0, MAX_SCORE] in every reachable state, and a
\* successful press at m_score = MAX_SCORE leaves it at MAX_SCORE.
C1_ScoreInRange ==
    /\ m_score \in 0 .. MAX_SCORE
    /\ (scored /\ entry_score = MAX_SCORE) => m_score = MAX_SCORE

C1_Witness == scored /\ entry_score = MAX_SCORE /\ m_score = MAX_SCORE

\* C2: the high score changes to a new non-zero value exactly on a tick
\* that completes a round with m_score above the high score held before,
\* and it then equals m_score; a round completed with m_score at or below
\* the high score leaves the high score alone and writes nothing.
C2_HighScoreUpdate ==
    [][LET changed == HighScore' # HighScore /\ HighScore' # 0
       IN  /\ changed <=> (RoundCompletes /\ m_score > HighScore)
           /\ changed => HighScore' = m_score
           /\ (RoundCompletes /\ m_score <= HighScore) =>
                  /\ HighScore' = HighScore
                  /\ high_score_eeprom' = high_score_eeprom
                  /\ eeprom_writes' = 0]_vars

C2_Witness ==
    /\ m_update_func = "show_score_blink"
    /\ m_blink_count = 0
    /\ eeprom_writes = 1
    /\ high_score_manager.m_high_score = m_score
    /\ m_score > 0

\* C3: a tick scores only after Lockout consecutive ticks that read the
\* play switch released, counted from the last scoring tick or from the
\* start of the session; and on the tick after a scoring tick, with the
\* play switch still pressed, the lockout counter is positive and m_score
\* does not change.
C3_NoDoubleScore ==
    [][/\ scored' => released_ticks >= Lockout
       /\ (scored /\ m_update_func' = "playing" /\ game_switch' = "low") =>
              /\ m_button_invalid_time' > 0
              /\ m_score' = m_score]_vars

\* A press read inside the scoring positions, after a first point, that
\* did not score because the lockout counter was still running.
C3_Witness ==
    /\ m_update_func = "playing"
    /\ m_score >= 1
    /\ m_position >= 16
    /\ game_switch = "low"
    /\ game_switch_score = Unread
    /\ ~scored

C5_OneDigitSelected ==
    Cardinality({i \in 0 .. Digit - 1 : score_display.m_cathode[i] = "low"}) <= 1

\* Inside the second or a later change_digit, after slot 1 was switched
\* off and before slot 0 is switched on.
C5_Witness ==
    /\ isr_pc = "cd_on"
    /\ score_display.m_now_digit = 0
    /\ score_display.m_valid
    /\ \A i \in 0 .. Digit - 1 : score_display.m_cathode[i] = "high"

\* C6: ScoreBlink is entered with blink counter 0, every tick in it adds
\* one, it is left, for ShowingScore, exactly when the counter reaches
\* 3 * FRAME_PER_SEC; tick k shows m_score when k mod FRAME_PER_SEC is
\* below FRAME_PER_SEC / 2 and blanks the display otherwise.
C6_BlinkDuration ==
    [][/\ (m_update_func # "show_score_blink" /\ m_update_func' = "show_score_blink")
              => m_blink_count' = 0
       /\ m_update_func = "show_score_blink" =>
              /\ m_blink_count < 3 * FRAME_PER_SEC
              /\ m_blink_count' = m_blink_count + 1
              /\ m_update_func' =
                     (IF m_blink_count' = 3 * FRAME_PER_SEC
                      THEN "show_score" ELSE "show_score_blink")
              /\ IF (m_blink_count % FRAME_PER_SEC) * 2 < FRAME_PER_SEC
                 THEN score_display'.m_valid /\ score_display'.m_value = m_score
                 ELSE ~score_display'.m_valid]_vars

C6_Witness ==
    /\ m_update_func = "show_score"
    /\ m_blink_count = 3 * FRAME_PER_SEC
    /\ score_display.m_valid

\* C7: for every score in [0, MAX_SCORE] and every jitter in [0, 40) the
\* speed reciprocal is max(1, ((30 - score/5) * (80 + jitter) + 50) / 100)
\* and is at least 1.
C7_SpeedRecipFormula ==
    rand_values # <<>> =>
        LET jitter == rand_values[1] % 40
        IN  /\ jitter \in 0 .. 39
            /\ m_bar_speed_recip =
                   Max(1, ((30 - (m_score \div 5)) * (80 + jitter) + 50) \div 100)
            /\ m_bar_speed_recip >= 1

C7_Witness ==
    /\ rand_values = <<39>>
    /\ m_score = MAX_SCORE
    /\ m_bar_speed_recip >= 1

\* C8: when the EEPROM cell holds a byte above MAX_SCORE, the high score
\* cached by the constructor is 0.
C8_CorruptCellGivesZero ==
    (high_score_manager.constructed /\ high_score_eeprom > MAX_SCORE) =>
        high_score_manager.m_high_score = 0

\* C9: a tick of ReadyToStart, ShowingHighScore or ShowingScore that reads
\* the erase switch pressed sets a non-zero high score to 0 with exactly
\* one write, and writes nothing when the high score is already 0.
C9_EraseOnce ==
    [][(m_update_func \in IdleHandlers /\ erase_score_switch' = "low") =>
           IF HighScore # 0
           THEN /\ HighScore' = 0
                /\ high_score_eeprom' = 0
                /\ eeprom_writes' = 1
           ELSE /\ HighScore' = 0
                /\ high_score_eeprom' = high_score_eeprom
                /\ eeprom_writes' = 0]_vars

C9_Witness ==
    /\ erase_score_switch = "low"
    /\ eeprom_writes = 1
    /\ high_score_manager.constructed
    /\ high_score_manager.m_high_score = 0
    /\ high_score_eeprom = 0

C11_SessionStart ==
    [][(m_update_func \in IdleHandlers /\ game_switch' = "low") =>
           /\ m_update_func' = "playing"
           /\ m_score' = 0
           /\ m_position' = 0
           /\ m_bar_count' = 0
           /\ m_button_invalid_time' = 0
           /\ Len(rand_values') = 1
           /\ m_bar_speed_recip' =
                  (30 * (80 + (rand_values'[1] % 40)) + 50) \div 100]_vars

\* A second session starts from show_score after a session that scored and
\* ended at position 19, with the erase switch pressed on the same tick.
C11_Witness ==
    /\ m_update_func = "playing"
    /\ game_switch = "low"
    /\ erase_score_switch = "low"
    /\ entry_score > 0
    /\ m_blink_count >= FRAME_PER_SEC * 3
    /\ m_score = 0
    /\ m_position = 0

\* The bar lines that are on (the LEDs are lit by a low level).
ActiveLines == {i \in BarPins : bar.m_pin[i] = "low"}

\* C12: after init() and any sequence of set_position and erase calls at
\* most one bar line is on and it is the recorded position; a set_position
\* with an argument in 0 .. 9 leaves exactly that line on, one with any
\* other argument changes no line and no recorded state, erase leaves no
\* line on and changes nothing on an erased bar.
C12_BarOneLine ==
    /\ [](/\ Cardinality(ActiveLines) <= 1
          /\ ActiveLines = (IF bar.m_pos = BAR_INVALID THEN {} ELSE {bar.m_pos}))
    /\ [][/\ (Len(bar_args') = 1 /\ bar_args'[1] \in 0 .. 9) =>
                  ActiveLines' = {bar_args'[1]}
          /\ (Len(bar_args') = 1 /\ bar_args'[1] \notin 0 .. 9) =>
                  bar' = bar
          /\ bar_args' = <<>> =>
                  /\ ActiveLines' = {}
                  /\ ActiveLines = {} => bar' = bar]_vars

\* set_position(MaxBarArg) has just been refused on a bar that shows line 9.
C12_Witness ==
    /\ bar_args = <<MaxBarArg>>
    /\ bar.m_pos = 9
    /\ ActiveLines = {9}

\* C13: set_number(v) on the two-digit display with v >= 100 clears
\* m_valid and turns every segment line off; with v < 100 it latches v and
\* changes no segment line, no digit-select line and not the slot.
C13_SetNumber ==
    [][(isr_pc = "update" /\ Len(display_args') = 1) =>
           LET v == display_args'[1]
           IN  IF v >= 100
               THEN /\ ~score_display'.m_valid
                    /\ \A i \in SegPins : score_display'.m_pin[i] = "low"
               ELSE /\ score_display'.m_valid
                    /\ score_display'.m_value = v
                    /\ score_display'.m_pin = score_display.m_pin
                    /\ score_display'.m_cathode = score_display.m_cathode
                    /\ score_display'.m_now_digit = score_display.m_now_digit]_vars

\* A high score of 255 has been passed to set_number while slot 1 is on:
\* the display is blank.
C13_Witness ==
    /\ isr_pc = "idle"
    /\ display_args = <<255>>
    /\ ~score_display.m_valid
    /\ \A i \in SegPins : score_display.m_pin[i] = "low"
    /\ score_display.m_cathode[1] = "low"

\* m_position after lines 372-375 of the tick that starts in this state.
AdvancedPosition ==
    IF m_bar_count + 1 >= m_bar_speed_recip THEN m_position + 1 ELSE m_position

Transitions ==
    {<<"ready_to_start", "playing">>, <<"ready_to_start", "show_high_score">>,
     <<"show_high_score", "playing">>, <<"playing", "show_score_blink">>,
     <<"show_score_blink", "show_score">>, <<"show_score", "playing">>,
     <<"show_score", "show_high_score">>}

\* C16: the machine starts in ready_to_start; a tick changes the handler
\* only along one of the seven transitions; a tick of ready_to_start or
\* show_score that reads the play switch pressed enters playing and does
\* not look at the show-high-score switch, and enters show_high_score only
\* when play is released and show-high-score pressed; show_high_score is
\* left only by a press of play; ready_to_start is never entered again.
C16_Transitions ==
    /\ m_update_func = "ready_to_start"
    /\ [][/\ m_update_func' # m_update_func =>
                  <<m_update_func, m_update_func'>> \in Transitions
          /\ (m_update_func \in IdleHandlers /\ game_switch' = "low") =>
                  (m_update_func' = "playing" /\ high_score_switch' = Unread)
          /\ (m_update_func \in IdleHandlers /\ m_update_func' = "playing") =>
                  game_switch' = "low"
          /\ (m_update_func # "show_high_score" /\ m_update_func' = "show_high_score") =>
                  (game_switch' = "high" /\ high_score_switch' = "low")
          /\ (m_update_func = "show_high_score" /\ m_update_func' # "show_high_score") =>
                  (game_switch' = "low" /\ m_update_func' = "playing")
          /\ m_update_func # "ready_to_start" => m_update_func' # "ready_to_start"]_vars

\* The high score is being shown after a finished session: show_score was
\* left by the show-high-score switch.
C16_Witness ==
    /\ m_update_func = "show_high_score"
    /\ m_blink_count >= FRAME_PER_SEC * 3
    /\ game_switch = "high"
    /\ high_score_switch = "low"

\* The segment lines that are on (a segment is lit by a high level).
LitSegments == {i \in SegPins : score_display.m_pin[i] = "high"}

\* C17: change_digit advances the slot index by one modulo the digit
\* count; when it switches the select line of the new slot s on and a
\* value v is latched, the segment lines carry the pattern of the digit
\* (v / 10^s) mod 10 (ones in slot 0, tens in slot 1, a leading zero
\* included), and the segment lines are written only while no slot is
\* selected.
C17_DigitBeforeSelect ==
    [][/\ isr_pc = "cd_advance" =>
              score_display'.m_now_digit = (score_display.m_now_digit + 1) % Digit
       /\ isr_pc = "cd_render" =>
              \A c \in 0 .. Digit - 1 : score_display.m_cathode[c] = "high"
       /\ isr_pc = "cd_on" =>
              LET s == score_display.m_now_digit
                  v == score_display.m_value
                  digit == IF s = 0 THEN v % 10 ELSE (v \div 10) % 10
              IN  /\ score_display'.m_cathode[s] = "low"
                  /\ score_display'.m_now_digit = s
                  /\ score_display'.m_pin = score_display.m_pin
                  /\ score_display.m_valid => LitSegments = segment_data(digit)]_vars

\* Slot 1 has just been switched on with 9 latched: the segments show the
\* leading zero.
C17_Witness ==
    /\ isr_pc = "update"
    /\ global_timer = 0
    /\ score_display.m_valid
    /\ score_display.m_value = 9
    /\ score_display.m_now_digit = 1
    /\ score_display.m_cathode[1] = "low"
    /\ LitSegments = segment_data(0)

\* C18: once the store is loaded, and from power-on for the value
\* get_high_score() returns, the in-memory high score equals the EEPROM
\* cell after every tick; a tick that changes the in-memory value writes
\* that value to the cell, once, and a tick writes the cell only when the
\* in-memory value changes.
C18_CacheMatchesCell ==
    /\ [](/\ HighScore = high_score_eeprom
          /\ high_score_manager.constructed =>
                 high_score_manager.m_high_score = high_score_eeprom)
    /\ [][/\ HighScore' # HighScore =>
                  (eeprom_writes' = 1 /\ high_score_eeprom' = HighScore')
          /\ eeprom_writes' > 0 => HighScore' # HighScore
          /\ high_score_eeprom' # high_score_eeprom => eeprom_writes' > 0]_vars

\* A round has just ended with a new high score: one write, cache and cell
\* hold the score.
C18_Witness ==
    /\ m_update_func = "show_score_blink"
    /\ m_blink_count = 0
    /\ eeprom_writes = 1
    /\ high_score_manager.constructed
    /\ high_score_manager.m_high_score = MaxPoints
    /\ high_score_eeprom = MaxPoints

\* C19: a tick of show_score_blink, and a tick of playing that does not
\* complete the round, reads neither the erase nor the show-high-score
\* switch, leaves the high score in memory and in the EEPROM as it was,
\* writes nothing and does not enter show_high_score; the high score
\* decreases only on a tick of ready_to_start, show_high_score or
\* show_score.
C19_StoreFrame ==
    [][/\ (\/ m_update_func = "show_score_blink"
           \/ (m_update_func = "playing" /\ ~RoundCompletes)) =>
              /\ HighScore' = HighScore
              /\ high_score_manager' = high_score_manager
              /\ high_score_eeprom' = high_score_eeprom
              /\ eeprom_writes' = 0
              /\ erase_score_switch' = Unread
              /\ high_score_switch' = Unread
       /\ m_update_func \in {"playing", "show_score_blink"} =>
              m_update_func' \notin {"show_high_score", "ready_to_start"}
       /\ HighScore' < HighScore => m_update_func \in IdleHandlers]_vars

\* The blink of a finished session is running while the EEPROM still holds
\* a high score the session did not beat.
C19_Witness ==
    /\ m_update_func = "show_score_blink"
    /\ m_blink_count = FRAME_PER_SEC
    /\ high_score_manager.constructed
    /\ HighScore = MaxStoredByte
    /\ m_score = 0
    /\ erase_score_switch = Unread
    /\ high_score_switch = Unread

\* Ticks spent in the current sub-round of Playing.
SubRoundTicks == m_position * m_bar_speed_recip + m_bar_count

\* C20: with every tick eventually taken, a sub-round of Playing lasts
\* fewer than 19 * m_bar_speed_recip ticks: each tick that neither scores
\* nor completes the round adds one to the ticks spent, which stay below
\* that bound, so from every Playing state the score grows or
\* show_score_blink is entered; a session in which the play switch is
\* never pressed, or kept pressed from its start, reaches show_score_blink
\* with score 0; show_score_blink always reaches show_score.
C20_SubRoundEnds ==
    /\ [](m_update_func = "playing" =>
              /\ m_bar_speed_recip > 0
              /\ SubRoundTicks < 19 * m_bar_speed_recip
              /\ player \in {"idle", "holding"} => m_score = 0)
    /\ [][(m_update_func = "playing" /\ ~RoundCompletes /\ ~scored') =>
              /\ m_bar_speed_recip' = m_bar_speed_recip
              /\ SubRoundTicks' = SubRoundTicks + 1]_vars
    /\ \A k \in 0 .. MaxPoints :
           (m_update_func = "playing" /\ m_score = k) ~>
               (m_update_func = "show_score_blink" \/ m_score > k)
    /\ (m_update_func = "playing" /\ player \in {"idle", "holding"}) ~>
           (m_update_func = "show_score_blink" /\ m_score = 0)
    /\ (m_update_func = "show_score_blink") ~> (m_update_func = "show_score")

\* A session in which the play switch was kept pressed has ended: the
\* score is 0 and the lockout counter is still loaded.
C20_Witness ==
    /\ m_update_func = "show_score"
    /\ player = "holding"
    /\ m_score = 0
    /\ m_position = 19
    /\ m_button_invalid_time = FRAME_PER_SEC \div 10

====
